---------------------------- MODULE Spec2Model ----------------------------
(***************************************************************************)
(* A model of the MFL front end: the lexer (src/src/lexer.rs), the         *)
(* recursive-descent / precedence-climbing parser (src/src/parser.rs) and  *)
(* the callers that own the precedence table (src/src/main.rs).            *)
(*                                                                         *)
(* Source text is a sequence of one-character strings.  A Parser is        *)
(* constructed over a text and a precedence table: construction runs the   *)
(* lexer to end-of-input (one lex() call per step), then parse() runs as   *)
(* one step.                                                               *)
(***************************************************************************)
EXTENDS Integers, Sequences, FiniteSets, TLC

(***************************************************************************)
(* Bounds of the model.                                                    *)
(***************************************************************************)
\* Parser constructions per session.
MaxParses == 2
\* Width in bits of the model's usize.  Every text of the model is shorter
\* than 2^UsizeBits, so a position inside a text never reaches the width;
\* only a counter that runs on without end does.
UsizeBits == 6

(***************************************************************************)
(* Characters: char::is_whitespace, char::is_digit(16),                    *)
(* char::is_alphanumeric and the match arms of Lexer::lex, on ASCII.       *)
(***************************************************************************)
Whitespace == {" ", "\n", "\t", "\r"}

Digits == {"0", "1", "2", "3", "4", "5", "6", "7", "8", "9"}

HexLetters == {"a", "b", "c", "d", "e", "f", "A", "B", "C", "D", "E", "F"}

Letters ==
    {"a", "b", "c", "d", "e", "f", "g", "h", "i", "j", "k", "l", "m",
     "n", "o", "p", "q", "r", "s", "t", "u", "v", "w", "x", "y", "z",
     "A", "B", "C", "D", "E", "F", "G", "H", "I", "J", "K", "L", "M",
     "N", "O", "P", "Q", "R", "S", "T", "U", "V", "W", "X", "Y", "Z"}

\* lexer.rs:140  '.' | '0'..='9'
NumberStart == {"."} \cup Digits

\* lexer.rs:149  the loop goes on while ch == '.' || ch.is_digit(16)
NumberChars == {"."} \cup Digits \cup HexLetters

\* lexer.rs:160  'a'..='z' | 'A'..='Z' | '_'
IdentStart == {"_"} \cup Letters

\* lexer.rs:169  the loop goes on while ch == '_' || ch.is_alphanumeric()
IdentChars == {"_"} \cup Letters \cup Digits

(***************************************************************************)
(* f64 values.  A value is the canonical decimal fraction n / d (d a power *)
(* of ten, no common factor ten).  str::parse::<f64> on a chunk of         *)
(* [0-9a-fA-F.]: digits with at most one '.', at least one digit, and an   *)
(* optional exponent e<digits>; anything else is an Err, which the lexer   *)
(* unwraps.                                                                *)
(***************************************************************************)
Num(n, d) == [n |-> n, d |-> d]

NoNum == Num(0, 1)

DigitVal(ch) ==
    CHOOSE v \in 0..9 :
        <<"0", "1", "2", "3", "4", "5", "6", "7", "8", "9">>[v + 1] = ch

RECURSIVE Pow10(_)
Pow10(k) == IF k = 0 THEN 1 ELSE 10 * Pow10(k - 1)

RECURSIVE DigitsVal(_)
DigitsVal(ds) ==
    IF ds = <<>> THEN 0
    ELSE 10 * DigitsVal(SubSeq(ds, 1, Len(ds) - 1)) + DigitVal(ds[Len(ds)])

RECURSIVE Canon(_, _)
Canon(n, d) ==
    IF d > 1 /\ n % 10 = 0 THEN Canon(n \div 10, d \div 10) ELSE Num(n, d)

AllIn(s, S) == \A i \in 1..Len(s) : s[i] \in S

Without(s, ch) == SelectSeq(s, LAMBDA c : c # ch)

\* The mantissa and exponent parts of a chunk: split at the first e / E.
ExpIndex(chunk) ==
    IF \E i \in 1..Len(chunk) : chunk[i] \in {"e", "E"}
    THEN CHOOSE i \in 1..Len(chunk) :
            /\ chunk[i] \in {"e", "E"}
            /\ \A j \in 1..(i - 1) : chunk[j] \notin {"e", "E"}
    ELSE 0

Mantissa(chunk) ==
    IF ExpIndex(chunk) = 0 THEN chunk ELSE SubSeq(chunk, 1, ExpIndex(chunk) - 1)

Exponent(chunk) ==
    IF ExpIndex(chunk) = 0 THEN <<>>
    ELSE SubSeq(chunk, ExpIndex(chunk) + 1, Len(chunk))

IsF64(chunk) ==
    LET m == Mantissa(chunk)
        e == Exponent(chunk)
    IN  /\ AllIn(m, Digits \cup {"."})
        /\ Len(m) - Len(Without(m, ".")) <= 1
        /\ Len(Without(m, ".")) >= 1
        /\ ExpIndex(chunk) # 0 => (Len(e) >= 1 /\ AllIn(e, Digits))

ParseF64(chunk) ==
    LET m    == Mantissa(chunk)
        dot  == IF \E i \in 1..Len(m) : m[i] = "."
                THEN CHOOSE i \in 1..Len(m) : m[i] = "."
                ELSE Len(m) + 1
        frac == IF dot > Len(m) THEN 0 ELSE Len(m) - dot
        e    == DigitsVal(Exponent(chunk))
    IN  IF e >= frac
        THEN Num(DigitsVal(Without(m, ".")) * Pow10(e - frac), 1)
        ELSE Canon(DigitsVal(Without(m, ".")), Pow10(frac - e))

\* parser.rs:179  `prec as usize` on an f64: truncation toward zero.
AsUsize(v) == v.n \div v.d

(***************************************************************************)
(* Tokens (lexer.rs:8-27).  k is the variant; s carries an identifier's    *)
(* text or an operator's character, v a number's value.                    *)
(***************************************************************************)
Tok(k, s, v) == [k |-> k, s |-> s, v |-> v]

Kw(k) == Tok(k, <<>>, NoNum)

EOF == Kw("EOF")

\* lexer.rs:177-191
Keyword(word) ==
    CASE word = <<"d", "e", "f">> -> Kw("Def")
      [] word = <<"e", "x", "t", "e", "r", "n">> -> Kw("Extern")
      [] word = <<"i", "f">> -> Kw("If")
      [] word = <<"t", "h", "e", "n">> -> Kw("Then")
      [] word = <<"e", "l", "s", "e">> -> Kw("Else")
      [] word = <<"f", "o", "r">> -> Kw("For")
      [] word = <<"i", "n">> -> Kw("In")
      [] word = <<"u", "n", "a", "r", "y">> -> Kw("Unary")
      [] word = <<"b", "i", "n", "a", "r", "y">> -> Kw("Binary")
      [] word = <<"v", "a", "r">> -> Kw("Var")
      [] OTHER -> Tok("Ident", word, NoNum)

(***************************************************************************)
(* Lexer::lex.  The lexer is [chars, pos]: chars is the index of the next  *)
(* character the Peekable<Chars> yields (Len(input) + 1 once exhausted),   *)
(* pos is self.pos.  Locals start / pos of the code are 0-based offsets.   *)
(***************************************************************************)
\* lexer.rs:70-76
NewLexer == [chars |-> 1, pos |-> 0]

\* The index of the first character at or after i that is not in class C
\* (Len(input) + 1 when there is none): the peek / next loops of lex.
RECURSIVE ScanWhile(_, _, _)
ScanWhile(input, i, C) ==
    IF i <= Len(input) /\ input[i] \in C
    THEN ScanWhile(input, i + 1, C)
    ELSE i

\* What one call of lex does up to its return, or up to the entry of the
\* comment loop.  ret: "token" (Ok(token), self.pos written), "eof_early"
\* (the return Ok(EOF) of lines 145 / 165: self.pos is not written),
\* "comment" (the loop of lines 128-135 is entered with local pos lpos),
\* "panic" (the unwrap of line 157).
LexOut(ret, tok, chars, pos, lpos) ==
    [ret |-> ret, tok |-> tok, lexer |-> [chars |-> chars, pos |-> pos],
     lpos |-> lpos]

lex(input, lexer) ==
    LET j     == ScanWhile(input, lexer.chars, Whitespace)
        start == lexer.pos + (j - lexer.chars)
    IN  IF j > Len(input)
        THEN LexOut("token", EOF, j, start, 0)
        ELSE
        LET next == input[j]
            pos1 == start + 1
        IN  CASE next = "(" -> LexOut("token", Kw("LParen"), j + 1, pos1, 0)
              [] next = ")" -> LexOut("token", Kw("RParen"), j + 1, pos1, 0)
              [] next = "," -> LexOut("token", Kw("Comma"), j + 1, pos1, 0)
              [] next = "#" -> LexOut("comment", EOF, j + 1, lexer.pos, pos1)
              [] next \in NumberStart ->
                    LET k   == ScanWhile(input, j + 1, NumberChars)
                        pos == pos1 + (k - (j + 1))
                        src == SubSeq(input, start + 1, pos)
                    IN  IF k > Len(input)
                        THEN LexOut("eof_early", EOF, k, lexer.pos, 0)
                        ELSE IF ~IsF64(src)
                        THEN LexOut("panic", EOF, k, lexer.pos, 0)
                        ELSE LexOut("token", Tok("Number", <<>>, ParseF64(src)),
                                    k, pos, 0)
              [] next \in IdentStart ->
                    LET k   == ScanWhile(input, j + 1, IdentChars)
                        pos == pos1 + (k - (j + 1))
                        src == SubSeq(input, start + 1, pos)
                    IN  IF k > Len(input)
                        THEN LexOut("eof_early", EOF, k, lexer.pos, 0)
                        ELSE LexOut("token", Keyword(src), k, pos, 0)
              [] OTHER -> LexOut("token", Tok("Op", <<next>>, NoNum), j + 1, pos1, 0)

(***************************************************************************)
(* The AST (parser.rs:9-60).  Option<T> is a sequence of at most one T.    *)
(***************************************************************************)
Some(x) == <<x>>

None == <<>>

NumberE(v) == [k |-> "Number", v |-> v]

VariableE(name) == [k |-> "Variable", name |-> name]

BinaryE(op, left, right) ==
    [k |-> "Binary", op |-> op, left |-> left, right |-> right]

CallE(fn_name, args) == [k |-> "Call", fn_name |-> fn_name, args |-> args]

ConditionalE(cond, consequence, alternative) ==
    [k |-> "Conditional", cond |-> cond, consequence |-> consequence,
     alternative |-> alternative]

ForE(var_name, start, end, step, body) ==
    [k |-> "For", var_name |-> var_name, start |-> start, end |-> end,
     step |-> step, body |-> body]

VarInE(variables, body) ==
    [k |-> "VarIn", variables |-> variables, body |-> body]

Prototype(name, args, is_op, prec) ==
    [name |-> name, args |-> args, is_op |-> is_op, prec |-> prec]

Function(prototype, body, is_anon) ==
    [prototype |-> prototype, body |-> body, is_anon |-> is_anon]

\* parser.rs:5
ANONYMOUS_FUNCTION_NAME == <<"a", "n", "o", "n", "y", "m", "o", "u", "s">>

(***************************************************************************)
(* The error messages of parser.rs.                                        *)
(***************************************************************************)
ErrEof == "Unexpected end of file."

ErrTrailing == "Unexpected token after parsed expression."

(***************************************************************************)
(* Parser state and results.  A parser state p is [pos, prec]: the cursor  *)
(* into the token vector (0-based, as in the code) and the caller's        *)
(* precedence table, which the parser holds by mutable reference.  Every   *)
(* production returns [st, val, err, p]: st is "Ok" (val is the value),    *)
(* "Err" (err is the &'static str) or "Panic" (an index out of bounds at   *)
(* tokens[pos] aborts the process); p is the state it leaves.              *)
(***************************************************************************)
Ok(val, p) == [st |-> "Ok", val |-> val, err |-> "", p |-> p]

Err(msg, p) == [st |-> "Err", val |-> None, err |-> msg, p |-> p]

Panic(p) == [st |-> "Panic", val |-> None, err |-> "", p |-> p]

\* parser.rs:139-141
at_end(tokens, p) == p.pos >= Len(tokens)

\* parser.rs:109-111  tokens[self.pos], read only where at_end is FALSE
curr(tokens, p) == tokens[p.pos + 1]

\* parser.rs:126-136  the state after advance, and whether it returned Ok
advance(tokens, p) ==
    [p |-> [p EXCEPT !.pos = @ + 1], ok |-> p.pos + 1 < Len(tokens)]

\* parser.rs:145-151
get_tok_precedence(tokens, p) ==
    IF ~at_end(tokens, p) /\ curr(tokens, p).k = "Op"
    THEN LET op == curr(tokens, p).s[1]
         IN  IF op \in DOMAIN p.prec THEN p.prec[op] ELSE 100
    ELSE -1

\* An insert that is lost: the table is returned as it was.
InsertLost(prec, op, n) == prec

\* parser.rs:184  HashMap::insert
Insert(prec, op, n) ==
    [c \in DOMAIN prec \cup {op} |-> IF c = op THEN n ELSE prec[c]]

(***************************************************************************)
(* The grammar productions of parser.rs, each translated statement by      *)
(* statement.  `x?` of the code returns the Err (here also the Panic) of x *)
(* at once; an unchecked `self.advance();` keeps the state and drops the   *)
(* Result.                                                                 *)
(***************************************************************************)
RECURSIVE proto_params(_, _, _, _, _, _)
RECURSIVE Production(_, _, _, _, _)

\* The productions call one another in a cycle; each such call is made
\* through Production, defined after them, which applies the production
\* named.
rec_parse_expr(tokens, p) == Production("parse_expr", tokens, p, 0, <<>>)

rec_parse_unary_expr(tokens, p) ==
    Production("parse_unary_expr", tokens, p, 0, <<>>)

rec_parse_binary_expr(tokens, p, prec, left) ==
    Production("parse_binary_expr", tokens, p, prec, left)

rec_call_args(tokens, p, id, args) ==
    Production("call_args", tokens, p, id, args)

rec_var_decls(tokens, p, variables) ==
    Production("var_decls", tokens, p, 0, variables)

\* parser.rs:230-256  the parameter loop of parse_prototype
proto_params(tokens, p, args, id, is_op, precedence) ==
    IF at_end(tokens, p) THEN Panic(p)
    ELSE IF curr(tokens, p).k # "Ident"
    THEN Err("Expected identifier in parameter declaration.", p)
    ELSE
    LET args1 == Append(args, curr(tokens, p).s)
        a     == advance(tokens, p)
    IN  IF ~a.ok THEN Err(ErrEof, a.p)
        ELSE CASE curr(tokens, a.p).k = "RParen" ->
                    Ok(Prototype(id, args1, is_op, precedence),
                       advance(tokens, a.p).p)
               [] curr(tokens, a.p).k = "Comma" ->
                    proto_params(tokens, advance(tokens, a.p).p, args1, id,
                                 is_op, precedence)
               [] OTHER ->
                    Err("Expected ',' or ')' character in prototype declaration.",
                        a.p)

\* parser.rs:209-227  parse_prototype from the '(' on
proto_parens(tokens, p, id, is_op, precedence) ==
    IF at_end(tokens, p) THEN Panic(p)
    ELSE IF curr(tokens, p).k # "LParen"
    THEN Err("Expected '(' character in prototype declaration.", p)
    ELSE
    LET a == advance(tokens, p)
    IN  IF ~a.ok THEN Err(ErrEof, a.p)
        ELSE IF curr(tokens, a.p).k = "RParen"
        THEN Ok(Prototype(id, <<>>, is_op, precedence), advance(tokens, a.p).p)
        ELSE proto_params(tokens, a.p, <<>>, id, is_op, precedence)

\* parser.rs:162-187  the `Binary` arm of parse_prototype
proto_binary(tokens, p) ==
    LET a == advance(tokens, p)
    IN  IF ~a.ok THEN Err(ErrEof, a.p)
        ELSE IF curr(tokens, a.p).k # "Op"
        THEN Err("Expected operator in custom operator declaration.", a.p)
        ELSE
        LET op == curr(tokens, a.p).s[1]
            b  == advance(tokens, a.p)
        IN  IF ~b.ok THEN Err(ErrEof, b.p)
            ELSE IF curr(tokens, b.p).k = "Number"
            THEN LET c    == advance(tokens, b.p)
                     prec == AsUsize(curr(tokens, b.p).v)
                 IN  IF ~c.ok THEN Err(ErrEof, c.p)
                     ELSE proto_parens(
                            tokens,
                            [c.p EXCEPT !.prec = Insert(@, op, prec)],
                            <<"b", "i", "n", "a", "r", "y", op>>, TRUE, prec)
            ELSE proto_parens(
                    tokens,
                    [b.p EXCEPT !.prec = Insert(@, op, 0)],
                    <<"b", "i", "n", "a", "r", "y", op>>, TRUE, 0)

\* parser.rs:189-204  the `Unary` arm of parse_prototype
proto_unary(tokens, p) ==
    LET a == advance(tokens, p)
    IN  IF ~a.ok THEN Err(ErrEof, a.p)
        ELSE IF curr(tokens, a.p).k # "Op"
        THEN Err("Expected operator in custom operator declaration.", a.p)
        ELSE
        LET op == curr(tokens, a.p).s[1]
            b  == advance(tokens, a.p)
        IN  IF ~b.ok THEN Err(ErrEof, b.p)
            ELSE proto_parens(tokens, b.p, <<"u", "n", "a", "r", "y", op>>,
                              TRUE, 0)

\* parser.rs:154-257
parse_prototype(tokens, p) ==
    IF at_end(tokens, p) THEN Panic(p)
    ELSE CASE curr(tokens, p).k = "Ident" ->
                LET a == advance(tokens, p)
                IN  IF ~a.ok THEN Err(ErrEof, a.p)
                    ELSE proto_parens(tokens, a.p, curr(tokens, p).s, FALSE, 0)
           [] curr(tokens, p).k = "Binary" -> proto_binary(tokens, p)
           [] curr(tokens, p).k = "Unary" -> proto_unary(tokens, p)
           [] OTHER -> Err("Expected identifier in prototype declaration.", p)

\* parse_nb_expr with its advance left out: the number is returned and the
\* cursor stays on it.
parse_nb_expr_stays(tokens, p) ==
    IF at_end(tokens, p) THEN Panic(p)
    ELSE IF curr(tokens, p).k = "Number"
    THEN Ok(NumberE(curr(tokens, p).v), p)
    ELSE Err("Expected number literal.", p)

\* parser.rs:301-310
parse_nb_expr(tokens, p) ==
    IF at_end(tokens, p) THEN Panic(p)
    ELSE IF curr(tokens, p).k = "Number"
    THEN Ok(NumberE(curr(tokens, p).v), advance(tokens, p).p)
    ELSE Err("Expected number literal.", p)

\* parser.rs:321-330  parse_paren_expr once parse_expr has returned expr
paren_close(tokens, expr) ==
    IF expr.st # "Ok" THEN expr
    ELSE IF at_end(tokens, expr.p) THEN Err(ErrEof, expr.p)
    ELSE IF curr(tokens, expr.p).k # "RParen"
    THEN Err("Expected ')' character at end of parenthesized expression.",
             expr.p)
    ELSE Ok(expr.val, advance(tokens, expr.p).p)

\* parser.rs:313-321
parse_paren_expr(tokens, p) ==
    IF at_end(tokens, p) THEN Err(ErrEof, p)
    ELSE IF curr(tokens, p).k # "LParen"
    THEN Err("Expected '(' character at start of parenthesized expression.", p)
    ELSE
    LET a == advance(tokens, p)
    IN  IF ~a.ok THEN Err(ErrEof, a.p)
        ELSE paren_close(tokens, rec_parse_expr(tokens, a.p))

\* parser.rs:362-379  one turn of the argument loop of parse_id_expr once
\* parse_expr has returned arg
call_args_next(tokens, id, args, arg) ==
    IF arg.st # "Ok" THEN arg
    ELSE IF at_end(tokens, arg.p) THEN Err(ErrEof, arg.p)
    ELSE CASE curr(tokens, arg.p).k = "Comma" ->
                LET a == advance(tokens, arg.p)
                IN  IF ~a.ok THEN Err(ErrEof, a.p)
                    ELSE rec_call_args(tokens, a.p, id, Append(args, arg.val))
           [] curr(tokens, arg.p).k = "RParen" ->
                Ok(CallE(id, Append(args, arg.val)), advance(tokens, arg.p).p)
           [] OTHER -> Err("Expected ',' character in function call.", arg.p)

\* parser.rs:361-362  the argument loop of parse_id_expr
call_args(tokens, p, id, args) ==
    call_args_next(tokens, id, args, rec_parse_expr(tokens, p))

\* parser.rs:334-384
parse_id_expr(tokens, p) ==
    IF at_end(tokens, p) THEN Panic(p)
    ELSE IF curr(tokens, p).k # "Ident" THEN Err("Expected identifier.", p)
    ELSE
    LET id == curr(tokens, p).s
        a  == advance(tokens, p)
        b  == advance(tokens, a.p)
    IN  IF ~a.ok THEN Ok(VariableE(id), a.p)
        ELSE IF curr(tokens, a.p).k = "LParen"
        THEN IF ~b.ok THEN Err(ErrEof, b.p)
             ELSE IF curr(tokens, b.p).k = "RParen"
             THEN Ok(CallE(id, <<>>), b.p)
             ELSE call_args(tokens, b.p, id, <<>>)
        ELSE Ok(VariableE(id), a.p)

\* parser.rs:461-465  parse_conditional_expr once the else branch is parsed
cond_done(cond, then_result, else_result) ==
    IF else_result.st # "Ok" THEN else_result
    ELSE Ok(ConditionalE(cond.val, then_result.val, else_result.val),
            else_result.p)

\* parser.rs:451-459  parse_conditional_expr once the then branch is parsed
cond_else(tokens, cond, then_result) ==
    IF then_result.st # "Ok" THEN then_result
    ELSE IF at_end(tokens, then_result.p)
            \/ curr(tokens, then_result.p).k # "Else"
    THEN Err("Expected 'else' keyword.", then_result.p)
    ELSE
    LET a == advance(tokens, then_result.p)
    IN  IF ~a.ok THEN Err(ErrEof, a.p)
        ELSE cond_done(cond, then_result, rec_parse_expr(tokens, a.p))

\* parser.rs:443-451  parse_conditional_expr once the condition is parsed
cond_then(tokens, cond) ==
    IF cond.st # "Ok" THEN cond
    ELSE IF at_end(tokens, cond.p) \/ curr(tokens, cond.p).k # "Then"
    THEN Err("Expected 'then' keyword.", cond.p)
    ELSE
    LET a == advance(tokens, cond.p)
    IN  IF ~a.ok THEN Err(ErrEof, a.p)
        ELSE cond_else(tokens, cond, rec_parse_expr(tokens, a.p))

\* parser.rs:439-443
parse_conditional_expr(tokens, p) ==
    LET a == advance(tokens, p)
    IN  IF ~a.ok THEN Err(ErrEof, a.p)
        ELSE cond_then(tokens, rec_parse_expr(tokens, a.p))

\* parser.rs:514-522  parse_for_expr once the body is parsed
for_done(name, start, end, step, body) ==
    IF body.st # "Ok" THEN body
    ELSE Ok(ForE(name, start.val, end.val, step, body.val), body.p)

\* parser.rs:508-514  parse_for_expr at the 'in'; step is the Option
for_in(tokens, p, name, start, end, step) ==
    IF at_end(tokens, p) THEN Err(ErrEof, p)
    ELSE IF curr(tokens, p).k # "In"
    THEN Err("Expected 'in' keyword in for loop.", p)
    ELSE
    LET a == advance(tokens, p)
    IN  IF ~a.ok THEN Err(ErrEof, a.p)
        ELSE for_done(name, start, end, step, rec_parse_expr(tokens, a.p))

\* parser.rs:502-506  parse_for_expr once the step expression is parsed
for_step_some(tokens, name, start, end, step) ==
    IF step.st # "Ok" THEN step
    ELSE for_in(tokens, step.p, name, start, end, Some(step.val))

\* parser.rs:495-506  parse_for_expr once the end expression is parsed
for_step(tokens, name, start, end) ==
    IF end.st # "Ok" THEN end
    ELSE IF at_end(tokens, end.p) THEN Err(ErrEof, end.p)
    ELSE IF curr(tokens, end.p).k = "Comma"
    THEN LET a == advance(tokens, end.p)
         IN  IF ~a.ok THEN Err(ErrEof, a.p)
             ELSE for_step_some(tokens, name, start, end,
                                rec_parse_expr(tokens, a.p))
    ELSE for_in(tokens, end.p, name, start, end, None)

\* parser.rs:487-495  parse_for_expr once the start expression is parsed
for_end(tokens, name, start) ==
    IF start.st # "Ok" THEN start
    ELSE IF at_end(tokens, start.p) THEN Err(ErrEof, start.p)
    ELSE IF curr(tokens, start.p).k # "Comma"
    THEN Err("Expected ',' character in for loop.", start.p)
    ELSE
    LET a == advance(tokens, start.p)
    IN  IF ~a.ok THEN Err(ErrEof, a.p)
        ELSE for_step(tokens, name, start, rec_parse_expr(tokens, a.p))

\* parser.rs:469-487
parse_for_expr(tokens, p) ==
    LET a == advance(tokens, p)
        b == advance(tokens, a.p)
        c == advance(tokens, b.p)
    IN  IF ~a.ok THEN Err(ErrEof, a.p)
        ELSE IF curr(tokens, a.p).k # "Ident"
        THEN Err("Expected identifier in for loop.", a.p)
        ELSE IF ~b.ok THEN Err(ErrEof, b.p)
        ELSE IF ~(curr(tokens, b.p).k = "Op" /\ curr(tokens, b.p).s = <<"=">>)
        THEN Err("Expected '=' character in for loop.", b.p)
        ELSE IF ~c.ok THEN Err(ErrEof, c.p)
        ELSE for_end(tokens, curr(tokens, a.p).s, rec_parse_expr(tokens, c.p))

\* parser.rs:566-571  parse_var_expr once the body is parsed
var_done(variables, body) ==
    IF body.st # "Ok" THEN body
    ELSE Ok(VarInE(variables, body.val), body.p)

\* parser.rs:551-566  one variable of parse_var_expr is read: push it, then
\* the ',' (the loop goes on) or the 'in' (the body follows)
var_next(tokens, p, variables, name, initializer) ==
    IF at_end(tokens, p) THEN Panic(p)
    ELSE
    LET vs == Append(variables, [name |-> name, init |-> initializer])
        a  == advance(tokens, p)
    IN  CASE curr(tokens, p).k = "Comma" ->
                IF ~a.ok THEN Err(ErrEof, a.p)
                ELSE rec_var_decls(tokens, a.p, vs)
          [] curr(tokens, p).k = "In" ->
                IF ~a.ok THEN Err(ErrEof, a.p)
                ELSE var_done(vs, rec_parse_expr(tokens, a.p))
          [] OTHER ->
                Err("Expected comma or 'in' keyword in variable declaration.", p)

\* parser.rs:543-551  the initializer of a variable is parsed
var_init(tokens, variables, name, init) ==
    IF init.st # "Ok" THEN init
    ELSE var_next(tokens, init.p, variables, name, Some(init.val))

\* parser.rs:533-549  the variable loop of parse_var_expr
var_decls(tokens, p, variables) ==
    IF at_end(tokens, p) THEN Panic(p)
    ELSE IF curr(tokens, p).k # "Ident"
    THEN Err("Expected identifier in 'var..in' declaration.", p)
    ELSE
    LET name == curr(tokens, p).s
        a    == advance(tokens, p)
        b    == advance(tokens, a.p)
    IN  IF ~a.ok THEN Err(ErrEof, a.p)
        ELSE IF curr(tokens, a.p).k = "Op" /\ curr(tokens, a.p).s = <<"=">>
        THEN IF ~b.ok THEN Err(ErrEof, b.p)
             ELSE var_init(tokens, variables, name,
                           rec_parse_expr(tokens, b.p))
        ELSE var_next(tokens, a.p, variables, name, None)

\* parser.rs:526-532
parse_var_expr(tokens, p) ==
    LET a == advance(tokens, p)
    IN  IF ~a.ok THEN Err(ErrEof, a.p) ELSE var_decls(tokens, a.p, <<>>)

\* parser.rs:575-585
parse_primary(tokens, p) ==
    IF at_end(tokens, p) THEN Panic(p)
    ELSE CASE curr(tokens, p).k = "Ident" -> parse_id_expr(tokens, p)
           [] curr(tokens, p).k = "Number" -> parse_nb_expr(tokens, p)
           [] curr(tokens, p).k = "LParen" -> parse_paren_expr(tokens, p)
           [] curr(tokens, p).k = "If" -> parse_conditional_expr(tokens, p)
           [] curr(tokens, p).k = "For" -> parse_for_expr(tokens, p)
           [] curr(tokens, p).k = "Var" -> parse_var_expr(tokens, p)
           [] OTHER -> Err("Unknown expression.", p)

\* parser.rs:396-403  parse_unary_expr once the operand is parsed
unary_call(op, operand) ==
    IF operand.st # "Ok" THEN operand
    ELSE Ok(CallE(<<"u", "n", "a", "r", "y", op>>, <<operand.val>>), operand.p)

\* parser.rs:387-396
parse_unary_expr(tokens, p) ==
    IF at_end(tokens, p) THEN Err(ErrEof, p)
    ELSE IF curr(tokens, p).k # "Op" THEN parse_primary(tokens, p)
    ELSE
    LET a == advance(tokens, p)
    IN  IF ~a.ok THEN Err(ErrEof, a.p)
        ELSE unary_call(curr(tokens, p).s[1], rec_parse_unary_expr(tokens, a.p))

\* parser.rs:427-435  parse_binary_expr once the right operand is whole:
\* the Binary node is built and the loop goes on
binary_combine(tokens, prec, left, op, right) ==
    IF right.st # "Ok" THEN right
    ELSE rec_parse_binary_expr(tokens, right.p, prec,
                               BinaryE(op, left, right.val))

\* parser.rs:422-428  parse_binary_expr once parse_unary_expr has returned
\* right
binary_right(tokens, prec, left, op, curr_prec, right) ==
    IF right.st # "Ok" THEN right
    ELSE IF curr_prec < get_tok_precedence(tokens, right.p)
    THEN binary_combine(tokens, prec, left, op,
                        rec_parse_binary_expr(tokens, right.p, curr_prec + 1,
                                              right.val))
    ELSE binary_combine(tokens, prec, left, op, right)

\* parser.rs:407-422
parse_binary_expr(tokens, p, prec, left) ==
    LET curr_prec == get_tok_precedence(tokens, p)
        a         == advance(tokens, p)
    IN  IF curr_prec < prec \/ at_end(tokens, p) THEN Ok(left, p)
        ELSE IF curr(tokens, p).k # "Op" THEN Err("Invalid operator.", p)
        ELSE IF ~a.ok THEN Err(ErrEof, a.p)
        ELSE binary_right(tokens, prec, left, curr(tokens, p).s[1], curr_prec,
                          rec_parse_unary_expr(tokens, a.p))

\* parser.rs:295-296  parse_expr once parse_unary_expr has returned left
expr_binary(tokens, left) ==
    IF left.st # "Ok" THEN left
    ELSE rec_parse_binary_expr(tokens, left.p, 0, left.val)

\* parser.rs:293-298
parse_expr(tokens, p) == expr_binary(tokens, rec_parse_unary_expr(tokens, p))

\* The production named, applied (see rec_parse_expr).
Production(name, tokens, p, x, y) ==
    CASE name = "parse_expr" -> parse_expr(tokens, p)
      [] name = "parse_unary_expr" -> parse_unary_expr(tokens, p)
      [] name = "parse_binary_expr" -> parse_binary_expr(tokens, p, x, y)
      [] name = "call_args" -> call_args(tokens, p, x, y)
      [] name = "var_decls" -> var_decls(tokens, p, y)

\* parser.rs:270-274  parse_def once the body is parsed
def_done(proto, body) ==
    IF body.st # "Ok" THEN body
    ELSE Ok(Function(proto.val, Some(body.val), FALSE), body.p)

\* parser.rs:265-268  parse_def once the prototype is parsed
def_body(tokens, proto) ==
    IF proto.st # "Ok" THEN proto
    ELSE def_done(proto, rec_parse_expr(tokens, proto.p))

\* parser.rs:260-265
parse_def(tokens, p) ==
    def_body(tokens, parse_prototype(tokens, [p EXCEPT !.pos = @ + 1]))

\* parser.rs:283-289  parse_extern once the prototype is parsed
extern_done(proto) ==
    IF proto.st # "Ok" THEN proto
    ELSE Ok(Function(proto.val, None, FALSE), proto.p)

\* parser.rs:278-283
parse_extern(tokens, p) ==
    extern_done(parse_prototype(tokens, [p EXCEPT !.pos = @ + 1]))

\* parser.rs:590-603  parse_toplevel_expr once parse_expr has returned
toplevel_done(expr) ==
    IF expr.st # "Ok" THEN expr
    ELSE Ok(Function(Prototype(ANONYMOUS_FUNCTION_NAME, <<>>, FALSE, 0),
                     Some(expr.val), TRUE),
            expr.p)

\* parser.rs:589-604
parse_toplevel_expr(tokens, p) == toplevel_done(rec_parse_expr(tokens, p))

\* parser.rs:95-105  parse once the production has returned
parse_result(tokens, result) ==
    IF result.st = "Ok" /\ ~at_end(tokens, result.p)
    THEN Err(ErrTrailing, result.p)
    ELSE result

\* parser.rs:88-106
parse(tokens, p) ==
    IF at_end(tokens, p) THEN Err(ErrEof, p)
    ELSE parse_result(tokens,
            CASE curr(tokens, p).k = "Def" -> parse_def(tokens, p)
              [] curr(tokens, p).k = "Extern" -> parse_extern(tokens, p)
              [] OTHER -> parse_toplevel_expr(tokens, p))

(***************************************************************************)
(* Source texts.  The inputs of the model are every prefix of a base text  *)
(* (the text cut off at any character), and every expression               *)
(* a <op1> b <op2> z, each followed by nothing, a space or a newline.      *)
(***************************************************************************)
\* def foo(a b) a+b
T_def_spaces ==
    <<"d", "e", "f", " ", "f", "o", "o", "(", "a", " ", "b", ")", " ", "a", "+", "b">>

\* def foo(a, b) a+b
T_def_commas ==
    <<"d", "e", "f", " ", "f", "o", "o", "(", "a", ",", " ", "b", ")", " ", "a", "+", "b">>

\* 1 2
T_two_numbers ==
    <<"1", " ", "2">>

\* 12.5
T_number ==
    <<"1", "2", ".", "5">>

\* 1.2.3 
T_bad_number ==
    <<"1", ".", "2", ".", "3", " ">>

\* 1 # c\n2
T_comment ==
    <<"1", " ", "#", " ", "c", "\n", "2">>

\* var x = 1, y in x+y
T_var ==
    <<"v", "a", "r", " ", "x", " ", "=", " ", "1", ",", " ", "y", " ", "i", "n", " ", "x", "+", "y">>

\* if 1 then 2 else 3
T_if ==
    <<"i", "f", " ", "1", " ", "t", "h", "e", "n", " ", "2", " ", "e", "l", "s", "e", " ", "3">>

\* if 1 else 3
T_if_no_then ==
    <<"i", "f", " ", "1", " ", "e", "l", "s", "e", " ", "3">>

\* if 1 2 else 3
T_if_no_then_kw ==
    <<"i", "f", " ", "1", " ", "2", " ", "e", "l", "s", "e", " ", "3">>

\* if 1 then 2 3
T_if_no_else_kw ==
    <<"i", "f", " ", "1", " ", "t", "h", "e", "n", " ", "2", " ", "3">>

\* def binary ^ 60 (a, b) a
T_binary_60 ==
    <<"d", "e", "f", " ", "b", "i", "n", "a", "r", "y", " ", "^", " ", "6", "0", " ", "(", "a", ",", " ", "b", ")", " ", "a">>

\* def binary * 5 (a, b) a
T_binary_5 ==
    <<"d", "e", "f", " ", "b", "i", "n", "a", "r", "y", " ", "*", " ", "5", " ", "(", "a", ",", " ", "b", ")", " ", "a">>

\* def binary | (a, b) a
T_binary_none ==
    <<"d", "e", "f", " ", "b", "i", "n", "a", "r", "y", " ", "|", " ", "(", "a", ",", " ", "b", ")", " ", "a">>

\* def binary * (a, b) a
T_binary_star_none ==
    <<"d", "e", "f", " ", "b", "i", "n", "a", "r", "y", " ", "*", " ", "(", "a", ",", " ", "b", ")", " ", "a">>

\* def unary ! (a) a
T_unary ==
    <<"d", "e", "f", " ", "u", "n", "a", "r", "y", " ", "!", " ", "(", "a", ")", " ", "a">>

\* extern sin(x)
T_extern ==
    <<"e", "x", "t", "e", "r", "n", " ", "s", "i", "n", "(", "x", ")">>

\* foo()
T_call0 ==
    <<"f", "o", "o", "(", ")">>

\* foo(1, b)
T_call2 ==
    <<"f", "o", "o", "(", "1", ",", " ", "b", ")">>

\* for i = 1, 9, 2 in i
T_for ==
    <<"f", "o", "r", " ", "i", " ", "=", " ", "1", ",", " ", "9", ",", " ", "2", " ", "i", "n", " ", "i">>

\* (a)
T_paren ==
    <<"(", "a", ")">>

\*  7
T_padded_number ==
    <<" ", "7">>

\* quit
T_quit ==
    <<"q", "u", "i", "t">>

BaseTexts ==
    {T_def_spaces,
     T_padded_number,
     T_def_commas,
     T_two_numbers,
     T_number,
     T_bad_number,
     T_comment,
     T_var,
     T_if,
     T_if_no_then,
     T_if_no_then_kw,
     T_if_no_else_kw,
     T_binary_60,
     T_binary_5,
     T_binary_none,
     T_binary_star_none,
     T_unary,
     T_extern,
     T_call0,
     T_call2,
     T_for,
     T_paren,
     T_quit}

Prefixes(t) == {SubSeq(t, 1, n) : n \in 0..Len(t)}

ExprOps == {"+", "-", "*", "<", "^", "!"}

ExprOperands == {<<"c">>, <<"3">>, <<"(", "c", ")">>}

ExprText(op1, op2, z) == <<"a", " ", op1, " ", "b", " ", op2, " ">> \o z

ExprTexts == {ExprText(op1, op2, z) : op1 \in ExprOps, op2 \in ExprOps,
                                      z \in ExprOperands}

Tails == {<<>>, <<" ">>, <<"\n">>}

Texts ==
    {t \o tail : t \in ExprTexts \cup UNION {Prefixes(b) : b \in BaseTexts},
                 tail \in Tails}

StartsWith(t, w) == Len(t) >= Len(w) /\ SubSeq(t, 1, Len(w)) = w

\* io::stdin().read_line: a line through its '\n', or the rest of the
\* input when standard input ends without one; "" at end of input.
Lines(eof) ==
    IF eof THEN {<<>>}
    ELSE {t \in Texts : \A i \in 1..(Len(t) - 1) : t[i] # "\n"}

(***************************************************************************)
(* The precedence table of the callers (main.rs:89-96, 164-171).           *)
(***************************************************************************)
BuiltinPrec ==
    [c \in {"=", "<", "+", "-", "*", "/"} |->
        CASE c = "=" -> 2
          [] c = "<" -> 10
          [] c \in {"+", "-"} -> 20
          [] c \in {"*", "/"} -> 40]

\* Before a caller has made its HashMap.
NoPrec == [c \in {} |-> 0]

NoResult == [st |-> "None", val |-> None, err |-> ""]

(***************************************************************************)
(* State.                                                                  *)
(*   mode      the caller: "repl" (run_repl), "file" (compile), or         *)
(*             "client" (a caller that keeps one table and passes it to    *)
(*             every Parser::new)                                          *)
(*   pc        "prompt" (the caller is about to take an input), "lex"      *)
(*             (Parser::new is collecting the lexer), "comment" (a lex     *)
(*             call is inside its comment loop), "parse" (the Parser is    *)
(*             built, parse() is about to be called), "exit", "aborted"    *)
(*             (a panic)                                                   *)
(*   input     the source text of the current Parser                       *)
(*   lexer     Lexer { chars, pos }                                        *)
(*   lpos      the local `pos` of a lex call inside the comment loop       *)
(*   tokens    Parser.tokens, as collected so far                          *)
(*   pos       Parser.pos                                                  *)
(*   prec      the caller's precedence table (Parser.prec refers to it)    *)
(*   result    what the last parse() returned                              *)
(*   parses    Parsers constructed so far                                  *)
(*   stdin_eof standard input has ended                                    *)
(***************************************************************************)
VARIABLES mode, pc, input, lexer, lpos, tokens, pos, prec, result, parses,
          stdin_eof

vars == <<mode, pc, input, lexer, lpos, tokens, pos, prec, result, parses,
          stdin_eof>>

Modes == {"repl", "file", "client"}

Init ==
    /\ mode \in Modes
    /\ pc = "prompt"
    /\ input = <<>>
    /\ lexer = NewLexer
    /\ lpos = 0
    /\ tokens = <<>>
    /\ pos = 0
    /\ prec = IF mode = "client" THEN BuiltinPrec ELSE NoPrec
    /\ result = NoResult
    /\ parses = 0
    /\ stdin_eof = FALSE

\* parser.rs:76-85  Parser::new(text, table): the lexer is created; collect
\* follows, one Iterator::next per LexNext step.
NewParser(text, table) ==
    /\ input' = text
    /\ lexer' = NewLexer
    /\ lpos' = 0
    /\ tokens' = <<>>
    /\ pos' = 0
    /\ prec' = table
    /\ result' = NoResult
    /\ parses' = parses + 1
    /\ pc' = "lex"

\* main.rs:147-190  one turn of the loop of run_repl, up to Parser::new
ReadLine ==
    /\ mode = "repl"
    /\ pc = "prompt"
    /\ parses < MaxParses
    /\ \E line \in Lines(stdin_eof) :
        /\ stdin_eof' = (stdin_eof \/ line = <<>> \/ line[Len(line)] # "\n")
        /\ IF StartsWith(line, <<"e", "x", "i", "t">>)
              \/ StartsWith(line, <<"q", "u", "i", "t">>)
           THEN /\ pc' = "exit"
                /\ UNCHANGED <<mode, input, lexer, lpos, tokens, pos, prec,
                               result, parses>>
           ELSE IF \A i \in 1..Len(line) : line[i] \in Whitespace
           THEN UNCHANGED <<mode, pc, input, lexer, lpos, tokens, pos, prec,
                            result, parses>>
           ELSE /\ NewParser(line, BuiltinPrec)
                /\ UNCHANGED mode

\* main.rs:81-101  compile: the file's text, a new table, one Parser
CompileFile ==
    /\ mode = "file"
    /\ pc = "prompt"
    /\ parses < MaxParses
    /\ \E text \in Texts : NewParser(text, BuiltinPrec)
    /\ UNCHANGED <<mode, stdin_eof>>

\* parser.rs:76-85  a caller constructs a Parser over the table it keeps
ClientParser ==
    /\ mode = "client"
    /\ pc = "prompt"
    /\ parses < MaxParses
    /\ \E text \in Texts : NewParser(text, prec)
    /\ UNCHANGED <<mode, stdin_eof>>

\* lexer.rs:208-217 and parser.rs:78  one Iterator::next of the collect:
\* Some(token) is pushed, None (Ok(EOF)) ends the collect and the Parser is
\* built with pos 0.  A `#` enters the comment loop.
LexNext ==
    /\ pc = "lex"
    /\ LET r == lex(input, lexer)
       IN  /\ lexer' = r.lexer
           /\ lpos' = r.lpos
           /\ CASE r.ret = "comment" -> pc' = "comment" /\ tokens' = tokens
                [] r.ret = "panic" -> pc' = "aborted" /\ tokens' = tokens
                [] r.ret = "eof_early" -> pc' = "parse" /\ tokens' = tokens
                [] r.ret = "token" /\ r.tok = EOF ->
                        pc' = "parse" /\ tokens' = tokens
                [] OTHER -> pc' = "lex" /\ tokens' = Append(tokens, r.tok)
    /\ UNCHANGED <<mode, input, pos, prec, result, parses, stdin_eof>>

\* lexer.rs:128-137, 202-204  one iteration of the comment loop:
\* ch = chars.next(); pos += 1; the loop is left only on Some('\n'), and
\* lex then writes self.pos and returns Ok(Comment), which collect pushes.
\* chars.next() keeps returning None once the text is exhausted.  pos += 1
\* at the top of usize wraps in a build without overflow checks and panics
\* in a build with them.
CommentLoop ==
    /\ pc = "comment"
    /\ LET ch == IF lexer.chars <= Len(input)
                 THEN Some(input[lexer.chars]) ELSE None
           chars == IF ch = None THEN lexer.chars ELSE lexer.chars + 1
       IN  IF lpos + 1 = 2 ^ UsizeBits
           THEN \/ /\ lexer' = [lexer EXCEPT !.chars = chars]
                   /\ lpos' = 0
                   /\ UNCHANGED <<tokens, pc>>
                \/ /\ pc' = "aborted"
                   /\ UNCHANGED <<lexer, lpos, tokens>>
           ELSE IF ch = Some("\n")
           THEN /\ lexer' = [chars |-> chars, pos |-> lpos + 1]
                /\ lpos' = 0
                /\ tokens' = Append(tokens, Kw("Comment"))
                /\ pc' = "lex"
           ELSE /\ lexer' = [lexer EXCEPT !.chars = chars]
                /\ lpos' = lpos + 1
                /\ UNCHANGED <<tokens, pc>>
    /\ UNCHANGED <<mode, input, pos, prec, result, parses, stdin_eof>>

\* parser.rs:88-106 under main.rs:101, 190  parse() on the Parser just
\* built.  A panic aborts the process; compile ends after its one parse;
\* the other callers go on to their next input.
Parse ==
    /\ pc = "parse"
    /\ LET r == parse(tokens, [pos |-> pos, prec |-> prec])
       IN  /\ result' = [st |-> r.st, val |-> r.val, err |-> r.err]
           /\ pos' = r.p.pos
           /\ prec' = r.p.prec
           /\ pc' = IF r.st = "Panic" THEN "aborted"
                    ELSE IF mode = "file" THEN "exit" ELSE "prompt"
    /\ UNCHANGED <<mode, input, lexer, lpos, tokens, parses, stdin_eof>>

Next ==
    \/ ReadLine
    \/ CompileFile
    \/ ClientParser
    \/ LexNext
    \/ CommentLoop
    \/ Parse

Spec == Init /\ [][Next]_vars

(***************************************************************************)
(* The lexer on its own: the collect of Parser::new (parser.rs:78) over    *)
(* one text, from Lexer::new to the end of the iteration.  The lexer is    *)
(* sequential code: a lex call that can take its next step takes it.       *)
(***************************************************************************)
LexerInit ==
    /\ mode = "file"
    /\ pc = "lex"
    /\ input \in Texts
    /\ lexer = NewLexer
    /\ lpos = 0
    /\ tokens = <<>>
    /\ pos = 0
    /\ prec = BuiltinPrec
    /\ result = NoResult
    /\ parses = 1
    /\ stdin_eof = FALSE

LexerNext ==
    \/ LexNext
    \/ CommentLoop

LexerSpec ==
    LexerInit /\ [][LexerNext]_vars /\ WF_vars(LexNext) /\ WF_vars(CommentLoop)

(***************************************************************************)
(* Vocabulary of the properties.                                           *)
(***************************************************************************)
\* parse() has been called on the Parser over `input` and has ended:
\* result holds what it returned ("Ok", "Err") or that it panicked.
Returned == result.st # "None"

WithTail(t) == {t \o tail : tail \in Tails}

AnonymousPrototype == Prototype(ANONYMOUS_FUNCTION_NAME, <<>>, FALSE, 0)

\* The Function that `def foo(a b) a+b` denotes.
FooFunction ==
    Function(Prototype(<<"f", "o", "o">>, <<<<"a">>, <<"b">>>>, FALSE, 0),
             Some(BinaryE("+", VariableE(<<"a">>), VariableE(<<"b">>))),
             FALSE)

\* The precedence a table gives an operator character.
PrecOf(table, op) == IF op \in DOMAIN table THEN table[op] ELSE 100

\* `a op1 b op2 z` grouped by a table, z being c, 3 or (c).
Grouped(table, op1, op2, z) ==
    LET a == VariableE(<<"a">>)
        b == VariableE(<<"b">>)
        c == IF z = <<"3">> THEN NumberE(Num(3, 1)) ELSE VariableE(<<"c">>)
    IN  IF PrecOf(table, op2) <= PrecOf(table, op1)
        THEN BinaryE(op2, BinaryE(op1, a, b), c)
        ELSE BinaryE(op1, a, BinaryE(op2, b, c))

\* The texts `a op1 b op2 z`, bare or followed by whitespace.
TwoOperatorTexts == UNION {WithTail(t) : t \in ExprTexts}

\* The grouping the table gives the text t of TwoOperatorTexts.
GroupedText(table, t) ==
    Grouped(table, t[3], t[7], IF t[9] = "3" THEN <<"3">> ELSE <<"c">>)

\* A text that is one decimal number literal with whitespace around it,
\* and the literal.
Literal(t) ==
    LET first == ScanWhile(t, 1, Whitespace)
    IN  SubSeq(t, first, ScanWhile(t, first, Digits \cup {"."}) - 1)

IsSingleNumber(t) ==
    LET first == ScanWhile(t, 1, Whitespace)
        last  == ScanWhile(t, first, Digits \cup {"."})
    IN  /\ IsF64(Literal(t))
        /\ ScanWhile(t, last, Whitespace) > Len(t)

\* Texts cut off where a production still needs a token.
TruncatedTexts ==
    {<<"d", "e", "f", " ">>,
     <<"d", "e", "f", " ", "f", "o", "o", "(", "a", ",", " ">>,
     <<"v", "a", "r", " ", "x", " ", "=", " ", "1", " ">>,
     <<"i", "f", " ", "1", " ", "t", "h", "e", "n", " ", "2", " ">>}

\* The tokens begin `def binary <op> <n>` or `extern binary <op> <n>`.
IsBinaryDecl(toks) ==
    /\ Len(toks) >= 4
    /\ toks[1].k \in {"Def", "Extern"}
    /\ toks[2].k = "Binary"
    /\ toks[3].k = "Op"
    /\ toks[4].k = "Number"

(***************************************************************************)
(* C1..C10.                                                                *)
(***************************************************************************)
\* C1: parsing the definition `def foo(a b) a+b`, its parameters separated
\* by a space or by a comma, returns Ok(Function) with is_anon false,
\* prototype.args <<a, b>> in source order and body Some(a + b).
C1_DefParsesToFunction ==
    (Returned /\ input \in WithTail(T_def_spaces) \cup WithTail(T_def_commas))
        => (result.st = "Ok" /\ result.val = FooFunction)

\* C1, the case: `def foo(a b) a+b` followed by a newline has been parsed
\* and was rejected for the missing comma.
C1_SpaceSeparatedRejected ==
    /\ Returned
    /\ input = T_def_spaces \o <<"\n">>
    /\ result.st = "Err"
    /\ result.err = "Expected ',' or ')' character in prototype declaration."

\* C2: `x op1 y op2 z` parses as (x op1 y) op2 z when the table gives op2 a
\* precedence not above op1's, and as x op1 (y op2 z) when it gives op2 a
\* higher one.
C2_PrecedenceClimbing ==
    (Returned /\ input \in TwoOperatorTexts)
        => /\ result.st = "Ok"
           /\ result.val.body = Some(GroupedText(prec, input))

\* C2, the case: `a - b - c` has been parsed and no grouping was returned.
C2_LastOperandLost ==
    /\ Returned
    /\ input = ExprText("-", "-", <<"c">>)
    /\ result.st = "Err"
    /\ result.err = ErrEof

\* C3: a top-level production that succeeds with source left over, as in
\* `1 2`, makes parse return "Unexpected token after parsed expression.",
\* never Ok.
C3_TrailingTokensRejected ==
    (Returned /\ input \in WithTail(T_two_numbers))
        => (result.st = "Err" /\ result.err = ErrTrailing)

\* C3, the case: `1 2` has been parsed, and Ok came back with Number(1)
\* alone.
C3_TrailingNumberDropped ==
    /\ Returned
    /\ input = T_two_numbers
    /\ result.st = "Ok"
    /\ result.val.body = Some(NumberE(Num(1, 1)))

\* C4: a text that is a single valid number literal, with or without
\* whitespace around it, parses to Ok(Function) with is_anon true and body
\* Some(Number(v)), v the literal's value.
C4_SingleNumberParses ==
    (Returned /\ IsSingleNumber(input))
        => /\ result.st = "Ok"
           /\ result.val = Function(AnonymousPrototype,
                                    Some(NumberE(ParseF64(Literal(input)))),
                                    TRUE)

\* C4, the case: the text `12.5` has been parsed and end of file was
\* reported.
C4_BareNumberRejected ==
    /\ Returned
    /\ input = T_number
    /\ result.st = "Err"
    /\ result.err = ErrEof

\* C5: when the text ends inside a number or an identifier / keyword run,
\* the run is still returned as a token: the collected sequence ends with
\* that Number, Ident or keyword token, and the lexer's position has passed
\* the whole text by the time end-of-input is signalled.
C5_EndOfInputEndsToken ==
    (pc = "parse" /\ input # <<>>
                  /\ input[Len(input)] \in IdentChars \cup NumberChars)
        => /\ tokens # <<>>
           /\ tokens[Len(tokens)].k \notin
                  {"Op", "LParen", "RParen", "Comma", "Comment"}
           /\ lexer.pos = Len(input)

\* C5, the case: the text `1 2` has been lexed to the one token Number(1).
C5_FinalTokenDropped ==
    /\ pc = "parse"
    /\ input = T_two_numbers
    /\ tokens = <<Tok("Number", <<>>, Num(1, 1))>>

\* C6: the lexing of every text comes to its end: once a Parser starts to
\* collect its tokens, end-of-input is reached (or the process has
\* stopped), also when a `#` comment runs to the end of the text.
C6_LexingTerminates ==
    (pc \in {"lex", "comment"}) ~> (pc \in {"parse", "aborted"})

\* C6, the case: the comment loop is running, the text is exhausted, and
\* pos has been counted up beyond the length of the text.
C6_CommentLoopPastEnd ==
    /\ pc = "comment"
    /\ lexer.chars > Len(input)
    /\ lpos > Len(input) + 1

\* C7: parse never aborts on an out-of-bounds token access, and on a text
\* cut off where a production needs a token (`def `, `def foo(a, `,
\* `var x = 1 `, `if 1 then 2 `) it returns Err("Unexpected end of file.").
C7_TruncationIsEndOfFile ==
    Returned
        => /\ result.st # "Panic"
           /\ input \in TruncatedTexts
                => (result.st = "Err" /\ result.err = ErrEof)

\* C7, the case: `def ` has been parsed and the token access past the end
\* has aborted the process.
C7_DefAloneAborts ==
    /\ input = <<"d", "e", "f", " ">>
    /\ pc = "aborted"
    /\ result.st = "Panic"

\* C8, step by step: (1) a parse that returns Ok on a `binary <op> <n>`
\* declaration leaves table[op] = n; (2) a Parser constructed by a caller
\* that keeps its table is constructed over that very table; (3) the
\* collecting of the tokens leaves the table alone; (4) a parse that
\* returns Ok on `a op1 b op2 z` has grouped it by the precedences the
\* table held when the parse began.
C8_Step ==
    /\ (pc = "parse" /\ result'.st = "Ok" /\ IsBinaryDecl(tokens))
          => /\ tokens[3].s[1] \in DOMAIN prec'
             /\ prec'[tokens[3].s[1]] = AsUsize(tokens[4].v)
    /\ (mode = "client" /\ pc = "prompt" /\ pc' = "lex") => prec' = prec
    /\ pc \in {"lex", "comment"} => prec' = prec
    /\ (pc = "parse" /\ result'.st = "Ok" /\ input \in TwoOperatorTexts)
          => result'.val.body = Some(GroupedText(prec, input))

\* C8: a precedence that a `binary <op> <n>` declaration puts into a table
\* is the precedence with which a later Parser over the same table
\* resolves <op> in binary expressions.
C8_TableMutationVisible == [][C8_Step]_vars

\* C8, the case: a caller that keeps its table has parsed twice; the table
\* holds '*' at the declared 5, not the built-in 40, and `a + b * c` has
\* come back as (a + b) * c.
C8_DeclaredPrecedenceUsed ==
    /\ mode = "client"
    /\ parses = 2
    /\ Returned
    /\ "*" \in DOMAIN prec
    /\ prec["*"] = 5
    /\ input = ExprText("+", "*", <<"c">>) \o <<"\n">>
    /\ result.st = "Ok"
    /\ result.val.body =
          Some(BinaryE("*", BinaryE("+", VariableE(<<"a">>),
                                     VariableE(<<"b">>)),
                       VariableE(<<"c">>)))

\* C9: in the REPL every entry the table holds when a line is read is
\* still in the table the Parser of that line is constructed over.
C9_ReplTablePersists ==
    [][(mode = "repl" /\ pc = "prompt" /\ pc' = "lex")
          => \A op \in DOMAIN prec :
                op \in DOMAIN prec' /\ prec'[op] = prec[op]]_vars

\* C9, the case: the REPL is at its prompt, a line before has declared
\* `binary ^ 60`, and a further line can be read.
C9_ReplHoldsDeclaredOperator ==
    /\ mode = "repl"
    /\ pc = "prompt"
    /\ parses < MaxParses
    /\ "^" \in DOMAIN prec
    /\ prec["^"] = 60

\* C10: `if 1 then 2 else 3` parses to Conditional(1, 2, 3), and a
\* conditional whose `then` part or `else` part is left out never parses
\* to Ok.
C10_ConditionalParses ==
    Returned
        => /\ input \in WithTail(T_if)
                => /\ result.st = "Ok"
                   /\ result.val.body =
                        Some(ConditionalE(NumberE(Num(1, 1)),
                                          NumberE(Num(2, 1)),
                                          NumberE(Num(3, 1))))
           /\ input \in WithTail(T_if_no_then) \cup WithTail(T_if_no_then_kw)
                        \cup WithTail(T_if_no_else_kw)
                        \cup WithTail(SubSeq(T_if, 1, 11))
                => result.st # "Ok"

\* C10, the case: the text `if 1 then 2 else 3` has been parsed and end of
\* file was reported.
C10_CompleteConditionalRejected ==
    /\ Returned
    /\ input = T_if
    /\ result.st = "Err"
    /\ result.err = ErrEof

(***************************************************************************)
(* C11..C15.                                                               *)
(***************************************************************************)
\* C11: an identifier followed by `(`, a comma-separated and possibly empty
\* argument list and `)` parses at top level to Call{fn_name, args}, and
\* the cursor is left past the closing `)`: on `foo()` and on `foo(1, b)`
\* parse returns Ok with every token consumed.
C11_CallParses ==
    Returned
        => /\ input \in WithTail(T_call0)
                => /\ result.st = "Ok"
                   /\ result.val.body = Some(CallE(<<"f", "o", "o">>, <<>>))
                   /\ pos >= Len(tokens)
           /\ input \in WithTail(T_call2)
                => /\ result.st = "Ok"
                   /\ result.val.body =
                        Some(CallE(<<"f", "o", "o">>,
                                   <<NumberE(Num(1, 1)), VariableE(<<"b">>)>>))
                   /\ pos >= Len(tokens)

\* C11, the case: `foo() ` has been parsed; the cursor was left on the
\* closing `)` and parse reported a leftover token.
C11_EmptyCallLeavesParen ==
    /\ Returned
    /\ input = T_call0 \o <<" ">>
    /\ result.st = "Err"
    /\ result.err = ErrTrailing
    /\ pos = 2
    /\ tokens[pos + 1].k = "RParen"

\* C12, step by step: a parse of tokens that begin `def binary <op> <n>`
\* (or `extern binary <op> <n>`) changes no entry of the table but the one
\* of <op>; every other parse (a `binary <op>` declaration without a
\* number, a `unary` declaration, an ordinary def / extern, an expression)
\* leaves the table as it was.
C12_Step ==
    pc = "parse"
        => IF IsBinaryDecl(tokens)
           THEN /\ DOMAIN prec' \subseteq DOMAIN prec \cup {tokens[3].s[1]}
                /\ \A c \in DOMAIN prec \ {tokens[3].s[1]} :
                      c \in DOMAIN prec' /\ prec'[c] = prec[c]
           ELSE prec' = prec

\* C12: a parse changes the precedence table only for a `binary <op>`
\* prototype with an explicit precedence number, and then only at <op>.
C12_OnlyExplicitPrecedenceWrites == [][C12_Step]_vars

\* C12, the case: compile has parsed `def binary * (a, b) a`, which names
\* no precedence, and the table that held '*' at 40 holds it at 0.
C12_UnnumberedDeclarationWrites ==
    /\ mode = "file"
    /\ Returned
    /\ input = T_binary_star_none \o <<"\n">>
    /\ result.st = "Ok"
    /\ prec["*"] = 0

\* C13: an operator symbol without an entry in the table is a binary
\* operator of precedence 100 and a token that is no operator symbol has
\* precedence -1; with `!` absent from the table, `a * b ! c` parses as
\* a * (b ! c) and `a ! b * c` as (a ! b) * c.
C13_UnknownOperatorBindsTightest ==
    /\ \A i \in 1..Len(tokens) :
          get_tok_precedence(tokens, [pos |-> i - 1, prec |-> prec]) =
              IF tokens[i].k # "Op" THEN -1
              ELSE IF tokens[i].s[1] \in DOMAIN prec
              THEN prec[tokens[i].s[1]]
              ELSE 100
    /\ (Returned /\ "!" \notin DOMAIN prec
                 /\ input \in WithTail(ExprText("*", "!", <<"c">>)))
          => /\ result.st = "Ok"
             /\ result.val.body =
                  Some(BinaryE("*", VariableE(<<"a">>),
                               BinaryE("!", VariableE(<<"b">>),
                                       VariableE(<<"c">>))))
    /\ (Returned /\ "!" \notin DOMAIN prec
                 /\ input \in WithTail(ExprText("!", "*", <<"c">>)))
          => /\ result.st = "Ok"
             /\ result.val.body =
                  Some(BinaryE("*", BinaryE("!", VariableE(<<"a">>),
                                             VariableE(<<"b">>)),
                               VariableE(<<"c">>)))

\* C13, the case: the text `a * b ! c` has been parsed over a table without
\* `!`; the parser was given a * b ! and reported the end of file.
C13_UnknownOperatorOperandLost ==
    /\ Returned
    /\ "!" \notin DOMAIN prec
    /\ input = ExprText("*", "!", <<"c">>)
    /\ Len(tokens) = 4
    /\ result.st = "Err"
    /\ result.err = ErrEof

\* The parser state with the cursor at q over the table of the state.
Cursor(q) == [pos |-> q, prec |-> prec]

\* A production that was entered at q and ended with r has not moved the
\* cursor back; one that returned Ok has moved it forward.
NoDecrease(r, q) == r.st \in {"Ok", "Err", "Panic"} /\ r.p.pos >= q

Progress(r, q) == NoDecrease(r, q) /\ (r.st = "Ok" => r.p.pos > q)

\* C14: over the tokens a Parser has collected, every production entered
\* at any cursor q comes to an end and never leaves the cursor before q.
\* An iteration of the loops of parse_prototype, parse_id_expr and
\* parse_var_expr, and a call of parse_expr, parse_unary_expr or
\* parse_primary, moves the cursor forward unless it ends in an error; so
\* does an iteration of the loop of parse_binary_expr that is entered at an
\* operator whose precedence reaches the threshold.
C14_ParseTerminates ==
    pc = "parse"
        => /\ NoDecrease(parse(tokens, Cursor(0)), 0)
           /\ \A q \in 0..(Len(tokens) - 1) :
                /\ Progress(parse_expr(tokens, Cursor(q)), q)
                /\ Progress(parse_unary_expr(tokens, Cursor(q)), q)
                /\ Progress(parse_primary(tokens, Cursor(q)), q)
                /\ Progress(parse_prototype(tokens, Cursor(q)), q)
                /\ Progress(proto_params(tokens, Cursor(q), <<>>, <<"f">>,
                                         FALSE, 0), q)
                /\ Progress(call_args(tokens, Cursor(q), <<"f">>, <<>>), q)
                /\ Progress(var_decls(tokens, Cursor(q), <<>>), q)
                /\ \A threshold \in {0, 1, 21, 41, 101} :
                      LET r == parse_binary_expr(tokens, Cursor(q), threshold,
                                                 VariableE(<<"x">>))
                      IN  /\ NoDecrease(r, q)
                          /\ get_tok_precedence(tokens, Cursor(q)) >= threshold
                                => Progress(r, q)

\* C14, the case: the tokens of `var x = 1, y in x+y ` are collected; parse
\* runs the variable loop twice and the binary loop, returns Ok and leaves
\* the cursor at the end of the tokens.
C14_LoopsReachTheEnd ==
    /\ pc = "parse"
    /\ input = T_var \o <<" ">>
    /\ Len(tokens) = 10
    /\ parse(tokens, Cursor(0)).st = "Ok"
    /\ parse(tokens, Cursor(0)).p.pos = Len(tokens)

\* C15: a parse that returns an error leaves the caller's precedence
\* table exactly as it was before the parse.
C15_ErrorLeavesTable ==
    [][(pc = "parse" /\ result'.st = "Err") => prec' = prec]_vars

\* C15, the case: compile has parsed `def binary ^ 60 (a, b` followed by a
\* space, parse returned an error, and the table holds '^' at 60.
C15_FailedDeclarationInserted ==
    /\ mode = "file"
    /\ Returned
    /\ input = SubSeq(T_binary_60, 1, 21) \o <<" ">>
    /\ result.st = "Err"
    /\ "^" \in DOMAIN prec
    /\ prec["^"] = 60

=============================================================================
